---- MODULE Spec2Model ----
(***************************************************************************)
(* Window enumeration of the X11 backend (src/linux/impl_window.rs).       *)
(*                                                                         *)
(* ImplWindow::all() is modelled as a state machine with one action per    *)
(* blocking round trip group; ImplWindow::new, get_atom, get_window_pid    *)
(* and get_active_window_id are operators over the replies the window      *)
(* system gives.  Replies are inputs: every action draws them from a       *)
(* small set and records them in the history variable `server`.            *)
(***************************************************************************)
EXTENDS Integers, Sequences, FiniteSets, TLC

\* ---------------------------------------------------------------- bounds
MaxScreens == 2      \* screen roots reported by the connection setup
MaxWindows == 3      \* window handles listed over all screens together
MaxMonitors == 2     \* length of the monitor lists tried for ImplWindow::new
MaxStateLen == 3     \* length of the _NET_WM_STATE values tried for ImplWindow::new

\* ------------------------------------------------------ protocol values
AtomNone == 0        \* x::ATOM_NONE, what InternAtom{only_if_exists} answers

AtomNames == {"_NET_CLIENT_LIST_STACKING", "_NET_ACTIVE_WINDOW", "_NET_WM_PID",
              "_NET_WM_STATE", "_NET_WM_STATE_HIDDEN",
              "_NET_WM_STATE_MAXIMIZED_VERT", "_NET_WM_STATE_MAXIMIZED_HORZ"}

StateAtomNames == <<"_NET_WM_STATE", "_NET_WM_STATE_HIDDEN",
                    "_NET_WM_STATE_MAXIMIZED_VERT", "_NET_WM_STATE_MAXIMIZED_HORZ">>

\* the identifier the server has interned for a name (server assigned)
AtomId(name) ==
    CASE name = "_NET_CLIENT_LIST_STACKING"    -> 401
      [] name = "_NET_ACTIVE_WINDOW"           -> 402
      [] name = "_NET_WM_PID"                  -> 403
      [] name = "_NET_WM_STATE"                -> 404
      [] name = "_NET_WM_STATE_HIDDEN"         -> 405
      [] name = "_NET_WM_STATE_MAXIMIZED_VERT" -> 406
      [] name = "_NET_WM_STATE_MAXIMIZED_HORZ" -> 407
      [] OTHER                                 -> 408

\* a state atom the program does not look for (_NET_WM_STATE_FULLSCREEN)
OtherStateAtom == AtomId("_NET_WM_STATE_FULLSCREEN")

\* Option<T> as a sequence of length 0 or 1
None == <<>>
Some(v) == <<v>>

Range(s) == {s[i] : i \in DOMAIN s}

\* ------------------------------------------------------------- get_atom
\* an InternAtom reply: ok = wait_for_reply succeeded, atom = atom_reply.atom()
AtomErr == [ok |-> FALSE, atom |-> AtomNone]
AtomMissing == [ok |-> TRUE, atom |-> AtomNone]
AtomFound(name) == [ok |-> TRUE, atom |-> AtomId(name)]

\* get_atom without the is_none() test: ATOM_NONE is handed to the caller
GetAtomUnchecked(reply) ==
    IF ~reply.ok THEN [ok |-> FALSE, atom |-> AtomNone]
    ELSE [ok |-> TRUE, atom |-> reply.atom]

GetAtom(reply) ==
    IF ~reply.ok THEN [ok |-> FALSE, atom |-> AtomNone]
    ELSE IF reply.atom = AtomNone THEN [ok |-> FALSE, atom |-> AtomNone]
    ELSE [ok |-> TRUE, atom |-> reply.atom]

\* ------------------------------------------------------- get_window_pid
\* pidReply: atom = InternAtom reply for _NET_WM_PID, prop = GetProperty reply
GetWindowPid(pidReply) ==
    LET wm_pid_atom == GetAtom(pidReply.atom) IN
    IF ~wm_pid_atom.ok THEN [ok |-> FALSE, pid |-> 0]
    ELSE IF ~pidReply.prop.ok THEN [ok |-> FALSE, pid |-> 0]
    ELSE IF pidReply.prop.val = <<>> THEN [ok |-> FALSE, pid |-> 0]
    ELSE [ok |-> TRUE, pid |-> Head(pidReply.prop.val)]

\* ------------------------------------------------- get_active_window_id
RECURSIVE ScanRoots(_, _)
ScanRoots(roots, i) ==
    IF i > Len(roots) THEN None
    ELSE IF ~roots[i].ok THEN None
    ELSE IF roots[i].val # <<>> THEN Some(Head(roots[i].val))
    ELSE ScanRoots(roots, i + 1)

\* the root loop going on to the next root when a property read fails
RECURSIVE ScanRootsSkipErr(_, _)
ScanRootsSkipErr(roots, i) ==
    IF i > Len(roots) THEN None
    ELSE IF roots[i].ok /\ roots[i].val # <<>> THEN Some(Head(roots[i].val))
    ELSE ScanRootsSkipErr(roots, i + 1)

GetActiveWindowIdSkipErr(atomReply, roots) ==
    IF ~GetAtom(atomReply).ok THEN None ELSE ScanRootsSkipErr(roots, 1)

GetActiveWindowId(atomReply, roots) ==
    IF ~GetAtom(atomReply).ok THEN None ELSE ScanRoots(roots, 1)

\* ------------------------------------------------------- str::from_utf8
Cont(b) == b >= 128 /\ b <= 191

RECURSIVE Utf8Valid(_, _)
Utf8Valid(b, i) ==
    LET n == Len(b)
        c(k) == i + k <= n /\ Cont(b[i + k])
    IN
    IF i > n THEN TRUE
    ELSE IF b[i] < 128 THEN Utf8Valid(b, i + 1)
    ELSE IF b[i] >= 194 /\ b[i] <= 223 THEN c(1) /\ Utf8Valid(b, i + 2)
    ELSE IF b[i] = 224 THEN
        i + 1 <= n /\ b[i + 1] >= 160 /\ b[i + 1] <= 191 /\ c(2) /\ Utf8Valid(b, i + 3)
    ELSE IF b[i] = 237 THEN
        i + 1 <= n /\ b[i + 1] >= 128 /\ b[i + 1] <= 159 /\ c(2) /\ Utf8Valid(b, i + 3)
    ELSE IF b[i] >= 225 /\ b[i] <= 239 THEN c(1) /\ c(2) /\ Utf8Valid(b, i + 3)
    ELSE IF b[i] = 240 THEN
        i + 1 <= n /\ b[i + 1] >= 144 /\ b[i + 1] <= 191 /\ c(2) /\ c(3)
        /\ Utf8Valid(b, i + 4)
    ELSE IF b[i] >= 241 /\ b[i] <= 243 THEN c(1) /\ c(2) /\ c(3) /\ Utf8Valid(b, i + 4)
    ELSE IF b[i] = 244 THEN
        i + 1 <= n /\ b[i + 1] >= 128 /\ b[i + 1] <= 143 /\ c(2) /\ c(3)
        /\ Utf8Valid(b, i + 4)
    ELSE FALSE

\* a lossy decode in place of the checked one: never an error
FromUtf8Lossy(bytes) == [ok |-> TRUE, val |-> bytes]

FromUtf8(bytes) == [ok |-> Utf8Valid(bytes, 1), val |-> bytes]

\* class.split('\0').find(|s| !s.is_empty()).unwrap_or("")
RECURSIVE DropNul(_)
DropNul(s) == IF s = <<>> THEN <<>> ELSE IF Head(s) = 0 THEN DropNul(Tail(s)) ELSE s

RECURSIVE TakeToNul(_)
TakeToNul(s) ==
    IF s = <<>> THEN <<>> ELSE IF Head(s) = 0 THEN <<>>
    ELSE <<Head(s)>> \o TakeToNul(Tail(s))

AppName(class) == TakeToNul(DropNul(class))

\* ------------------------------------------------------------- geometry
\* the value of an i16 expression after two's complement wrap-around
Wrap16(v) == ((v + 32768) % 65536) - 32768

\* (translate.dst_x() - geometry.x()) as i32: the subtraction is done in i16
GlobalCoord(dst, local) == Wrap16(dst - local)

\* ------------------------------------------------------ current_monitor
Max(a, b) == IF a > b THEN a ELSE b
Min(a, b) == IF a < b THEN a ELSE b

Rect(x, y, width, height) == [x |-> x, y |-> y, width |-> width, height |-> height]

OverlapArea(a, b) ==
    LET w == Min(a.x + a.width, b.x + b.width) - Max(a.x, b.x)
        h == Min(a.y + a.height, b.y + b.height) - Max(a.y, b.y)
    IN IF w <= 0 \/ h <= 0 THEN 0 ELSE w * h

\* the comparison admitting an equal area: the last monitor of a tie wins
LargerOrEqualArea(area, max_area) == area >= max_area

LargerArea(area, max_area) == area > max_area

RECURSIVE MonitorLoop(_, _, _, _, _)
MonitorLoop(window_rect, impl_monitors, i, max_area, find_result) ==
    IF i > Len(impl_monitors) THEN find_result
    ELSE
        LET m == impl_monitors[i]
            area == OverlapArea(window_rect, Rect(m.x, m.y, m.width, m.height))
        IN IF LargerArea(area, max_area)
           THEN MonitorLoop(window_rect, impl_monitors, i + 1, area, m)
           ELSE MonitorLoop(window_rect, impl_monitors, i + 1, max_area, find_result)

DefaultMonitor == [id |-> 0, x |-> 0, y |-> 0, width |-> 0, height |-> 0]

\* an empty monitor list answered with a default monitor instead of an error
FirstMonitorOrDefault(impl_monitors) ==
    IF impl_monitors = <<>> THEN [ok |-> TRUE, mon |-> DefaultMonitor]
    ELSE [ok |-> TRUE, mon |-> impl_monitors[1]]

FirstMonitor(impl_monitors) ==
    IF impl_monitors = <<>> THEN [ok |-> FALSE, mon |-> DefaultMonitor]
    ELSE [ok |-> TRUE, mon |-> impl_monitors[1]]

CurrentMonitor(window_rect, impl_monitors) ==
    LET first == FirstMonitor(impl_monitors) IN
    IF ~first.ok THEN first
    ELSE [ok |-> TRUE,
          mon |-> MonitorLoop(window_rect, impl_monitors, 1, 0, first.mon)]

\* --------------------------------------------------------- window state
HasAtom(wm_state, atom) == \E i \in DOMAIN wm_state : wm_state[i] = atom

\* maximized decided without looking at the hidden atom
IsMaximizedIgnoringHidden(is_minimized, is_maximized_vert, is_maximized_horz) ==
    is_maximized_vert /\ is_maximized_horz

IsMaximized(is_minimized, is_maximized_vert, is_maximized_horz) ==
    ~is_minimized /\ is_maximized_vert /\ is_maximized_horz

\* ------------------------------------------------------- ImplWindow::new
\* What the window system answers to the requests new() makes for one window:
\*   title, class : GetProperty replies (ok, val = the bytes of the value)
\*   geom         : GetGeometry reply, trans : TranslateCoordinates reply
\*   atoms        : the InternAtom reply for each of the four state names
\*   state        : GetProperty reply for _NET_WM_STATE (val = list of atoms)
NoWin == <<>>

NewErr(stage) == [ok |-> FALSE, stage |-> stage, win |-> NoWin]

StateFlags(wm_state, hidden_atom, vert_atom, horz_atom) ==
    LET is_minimized == HasAtom(wm_state, hidden_atom)
        is_maximized_vert == HasAtom(wm_state, vert_atom)
        is_maximized_horz == HasAtom(wm_state, horz_atom)
    IN [is_minimized |-> is_minimized,
        is_maximized |-> IsMaximized(is_minimized, is_maximized_vert, is_maximized_horz)]

New(reply, window, pid, z, is_focused, impl_monitors) ==
    IF ~reply.title.ok THEN NewErr("title") ELSE
    LET title == FromUtf8(reply.title.val) IN
    IF ~title.ok THEN NewErr("title_utf8") ELSE
    IF ~reply.class.ok THEN NewErr("class") ELSE
    LET class == FromUtf8(reply.class.val) IN
    IF ~class.ok THEN NewErr("class_utf8") ELSE
    IF ~reply.geom.ok THEN NewErr("geometry") ELSE
    IF ~reply.trans.ok THEN NewErr("translate") ELSE
    LET x == GlobalCoord(reply.trans.dst_x, reply.geom.x)
        y == GlobalCoord(reply.trans.dst_y, reply.geom.y)
        width == reply.geom.width
        height == reply.geom.height
        current_monitor == CurrentMonitor(Rect(x, y, width, height), impl_monitors)
    IN
    IF ~current_monitor.ok THEN NewErr("monitor") ELSE
    LET wm_state_atom == GetAtom(reply.atoms[StateAtomNames[1]])
        wm_state_hidden_atom == GetAtom(reply.atoms[StateAtomNames[2]])
        wm_state_maximized_vert_atom == GetAtom(reply.atoms[StateAtomNames[3]])
        wm_state_maximized_horz_atom == GetAtom(reply.atoms[StateAtomNames[4]])
    IN
    IF ~wm_state_atom.ok THEN NewErr("atom") ELSE
    IF ~wm_state_hidden_atom.ok THEN NewErr("atom") ELSE
    IF ~wm_state_maximized_vert_atom.ok THEN NewErr("atom") ELSE
    IF ~wm_state_maximized_horz_atom.ok THEN NewErr("atom") ELSE
    IF ~reply.state.ok THEN NewErr("state") ELSE
    LET flags == StateFlags(reply.state.val, wm_state_hidden_atom.atom,
                            wm_state_maximized_vert_atom.atom,
                            wm_state_maximized_horz_atom.atom)
    IN [ok |-> TRUE, stage |-> "ok",
        win |-> <<[id |-> window, title |-> title.val, app_name |-> AppName(class.val),
                   pid |-> pid, current_monitor |-> current_monitor.mon,
                   x |-> x, y |-> y, z |-> z, width |-> width, height |-> height,
                   is_minimized |-> flags.is_minimized,
                   is_maximized |-> flags.is_maximized,
                   is_focused |-> is_focused]>>]

\* --------------------------------------------- ImplWindow::all, loop body
\* lines 262-282: the windows (none or one) the body adds for one client
ClientWindow(z, client, pidReply, reply, active_window_id, impl_monitors) ==
    LET pid == GetWindowPid(pidReply) IN
    IF ~pid.ok THEN NoWin
    ELSE
        LET is_focused == (active_window_id = Some(client))
        IN New(reply, client, pid.pid, z, is_focused, impl_monitors).win

\* z advanced only once the pid has been read
ProcessClientZAfterPid(z, impl_windows, client, pidReply, reply, active_window_id, impl_monitors) ==
    LET z1 == IF GetWindowPid(pidReply).ok THEN z + 1 ELSE z
    IN [z |-> z1,
        impl_windows |-> impl_windows \o
            ClientWindow(z1, client, pidReply, reply, active_window_id, impl_monitors)]

\* z advanced only for a window that is pushed
ProcessClientZOnPush(z, impl_windows, client, pidReply, reply, active_window_id, impl_monitors) ==
    LET w == ClientWindow(z + 1, client, pidReply, reply, active_window_id, impl_monitors)
    IN [z |-> IF w = NoWin THEN z ELSE z + 1, impl_windows |-> impl_windows \o w]

ProcessClient(z, impl_windows, client, pidReply, reply, active_window_id, impl_monitors) ==
    LET z1 == z + 1
    IN [z |-> z1,
        impl_windows |-> impl_windows \o
            ClientWindow(z1, client, pidReply, reply, active_window_id, impl_monitors)]

\* Vec::reverse left out: the list stays bottom to top
NotReversed(s) == s

Reverse(s) == [i \in 1..Len(s) |-> s[Len(s) + 1 - i]]

\* ================================================================ inputs
\* The replies the actions draw from.  Window handles are named after the
\* place the window system lists them at: the k-th client of screen s.
WindowId(s, k) == s * 10 + k

Monitor(id, x, y, width, height) ==
    [id |-> id, x |-> x, y |-> y, width |-> width, height |-> height]

M1 == Monitor(1, 0, 0, 1920, 1080)
M2 == Monitor(2, 1920, 0, 1920, 1080)
M3 == Monitor(3, 0, 0, 1920, 1080)      \* a mirror of M1

PropErr == [ok |-> FALSE, val |-> <<>>]
Prop(val) == [ok |-> TRUE, val |-> val]

AllStateAtoms == [n \in Range(StateAtomNames) |-> AtomFound(n)]

Hidden == AtomId("_NET_WM_STATE_HIDDEN")
MaxVert == AtomId("_NET_WM_STATE_MAXIMIZED_VERT")
MaxHorz == AtomId("_NET_WM_STATE_MAXIMIZED_HORZ")

\* title "Hi", class "F\0f\0", a 240x100 window at global (1800, 0)
GoodReply ==
    [title |-> Prop(<<72, 105>>),
     class |-> Prop(<<70, 0, 102, 0>>),
     geom  |-> [ok |-> TRUE, x |-> 2, y |-> 30, width |-> 240, height |-> 100],
     trans |-> [ok |-> TRUE, dst_x |-> 1802, dst_y |-> 30],
     atoms |-> AllStateAtoms,
     state |-> Prop(<<>>)]

\* the reply recorded for a window new() was never called for
NoWindowReply ==
    [title |-> PropErr, class |-> PropErr,
     geom  |-> [ok |-> FALSE, x |-> 0, y |-> 0, width |-> 0, height |-> 0],
     trans |-> [ok |-> FALSE, dst_x |-> 0, dst_y |-> 0],
     atoms |-> [n \in Range(StateAtomNames) |-> AtomErr],
     state |-> PropErr]

BadTitleReply == [GoodReply EXCEPT !.title = Prop(<<72, 255>>)]
NoStateAtomReply == [GoodReply EXCEPT !.atoms["_NET_WM_STATE_HIDDEN"] = AtomMissing]
MaximizedReply == [GoodReply EXCEPT !.state = Prop(<<MaxVert, MaxHorz>>)]

PidOk == [atom |-> AtomFound("_NET_WM_PID"), prop |-> Prop(<<4242>>)]
PidUnreadable == [atom |-> AtomFound("_NET_WM_PID"), prop |-> Prop(<<>>)]
PidAtomMissing == [atom |-> AtomMissing, prop |-> PropErr]

ConnReplies ==
    {[ok |-> FALSE, nscreens |-> 0]} \cup {[ok |-> TRUE, nscreens |-> n] : n \in 1..MaxScreens}

AtomReplies(name) == {AtomErr, AtomMissing, AtomFound(name)}

MonitorsErr == [ok |-> FALSE, val |-> <<>>]

PointerErr == [ok |-> FALSE, same_screen |-> FALSE]
PointerElsewhere == [ok |-> TRUE, same_screen |-> FALSE]
PointerHere == [ok |-> TRUE, same_screen |-> TRUE]

\* the QueryPointer reply and the stacking list reply of screen s; at most
\* `room` clients are listed
ScreenReplies(s, room) ==
    {[qp |-> q, lr |-> PropErr] : q \in {PointerErr, PointerElsewhere, PointerHere}}
    \cup {[qp |-> PointerHere, lr |-> Prop([k \in 1..n |-> WindowId(s, k)])] : n \in 0..room}

\* input sets of the enumeration specifications
EnumActive == [atoms |-> {AtomMissing}, roots |-> {Prop(<<>>)}]
EnumMonitors == {MonitorsErr, Prop(<<>>), Prop(<<M1, M2>>)}
EnumPids == {PidOk, PidUnreadable, PidAtomMissing}
EnumWindows == {GoodReply, BadTitleReply, NoStateAtomReply}

FocusActive ==
    [atoms |-> AtomReplies("_NET_ACTIVE_WINDOW"),
     roots |-> {PropErr, Prop(<<>>), Prop(<<WindowId(1, 1)>>), Prop(<<WindowId(2, 1)>>)}]
FocusMonitors == {Prop(<<M1>>)}
FocusPids == {PidOk, PidAtomMissing}
FocusWindows == {GoodReply}

RerunActive ==
    [atoms |-> {AtomFound("_NET_ACTIVE_WINDOW")},
     roots |-> {Prop(<<WindowId(1, 2)>>)}]
RerunMonitors == {Prop(<<M1, M2>>)}
RerunPids == {PidOk, PidUnreadable}
RerunWindows == {MaximizedReply, BadTitleReply}

\* ================================================================= state
VARIABLES
    pc,                \* position in all(): connect, atom, active, monitors,
                       \*   screen, client, done; "new" for a lone call of new()
    nscreens,          \* setup.roots().len()
    active_window_id,  \* Option<u32>
    impl_monitors,     \* Vec<ImplMonitor>
    z,                 \* the stacking counter
    scr,               \* index of the screen root the outer loop is at
    clients,           \* the handles of the current list still to process
    impl_windows,      \* Vec<ImplWindow>
    result,            \* what all() returned: tag None, Err or Ok
    server,            \* history: the replies the window system gave this call
    run,               \* 1 = first call of all(), 2 = the call repeated
    first,             \* the history and the result of the first call
    failW,             \* the window whose pid is unreadable in the second call
    arg,               \* the arguments of a lone call of new()
    ret                \* its result

vars == <<pc, nscreens, active_window_id, impl_monitors, z, scr, clients,
          impl_windows, result, server, run, first, failW, arg, ret>>

NoResult == [tag |-> "None", val |-> <<>>]
Err == [tag |-> "Err", val |-> <<>>]
Ok(val) == [tag |-> "Ok", val |-> val]

NoHistory ==
    [conn |-> <<>>, atom |-> <<>>, active |-> <<>>, monitors |-> <<>>,
     screens |-> <<>>, clients |-> <<>>]

NoArg == [reply |-> NoWindowReply, monitors |-> <<>>]
NoRet == [called |-> FALSE, res |-> NewErr("none")]

\* the state at the entry of all()
Entry ==
    /\ pc = "connect"
    /\ nscreens = 0
    /\ active_window_id = None
    /\ impl_monitors = <<>>
    /\ z = -1
    /\ scr = 1
    /\ clients = <<>>
    /\ impl_windows = <<>>
    /\ result = NoResult
    /\ server = NoHistory

Init ==
    /\ Entry
    /\ run = 1
    /\ first = [server |-> NoHistory, result |-> NoResult]
    /\ failW = 0
    /\ arg = NoArg
    /\ ret = NoRet

\* a reply is an input in the first call and the recorded one in the second
Choices(D, recorded) == IF run = 1 THEN D ELSE {recorded}

harness == <<run, first, failW, arg, ret>>

\* line 223: Connection::connect(None)?
Connect ==
    /\ pc = "connect"
    /\ \E c \in Choices(ConnReplies, first.server.conn[1]) :
        /\ server' = [server EXCEPT !.conn = <<c>>]
        /\ IF c.ok
           THEN /\ nscreens' = c.nscreens
                /\ pc' = "atom"
                /\ result' = result
           ELSE /\ nscreens' = nscreens
                /\ pc' = "done"
                /\ result' = Err
    /\ UNCHANGED <<active_window_id, impl_monitors, z, scr, clients, impl_windows>>
    /\ UNCHANGED harness

\* line 229: get_atom(&conn, "_NET_CLIENT_LIST_STACKING")?
InternClientList ==
    /\ pc = "atom"
    /\ \E r \in Choices(AtomReplies("_NET_CLIENT_LIST_STACKING"), first.server.atom[1]) :
        /\ server' = [server EXCEPT !.atom = <<r>>]
        /\ IF GetAtom(r).ok
           THEN pc' = "active" /\ result' = result
           ELSE pc' = "done" /\ result' = Err
    /\ UNCHANGED <<nscreens, active_window_id, impl_monitors, z, scr, clients, impl_windows>>
    /\ UNCHANGED harness

\* line 230: get_active_window_id(&conn); the replies of all roots are drawn,
\* the function reads them in order
GetActive(A) ==
    /\ pc = "active"
    /\ \E a \in Choices([atom : A.atoms, roots : [1..nscreens -> A.roots]],
                        first.server.active[1]) :
        /\ server' = [server EXCEPT !.active = <<a>>]
        /\ active_window_id' = GetActiveWindowId(a.atom, a.roots)
    /\ pc' = "monitors"
    /\ UNCHANGED <<nscreens, impl_monitors, z, scr, clients, impl_windows, result>>
    /\ UNCHANGED harness

\* line 233: ImplMonitor::all()?
Monitors(M) ==
    /\ pc = "monitors"
    /\ \E m \in Choices(M, first.server.monitors[1]) :
        /\ server' = [server EXCEPT !.monitors = <<m>>]
        /\ IF m.ok
           THEN /\ impl_monitors' = m.val
                /\ pc' = "screen"
                /\ result' = result
           ELSE /\ impl_monitors' = impl_monitors
                /\ pc' = "done"
                /\ result' = Err
    /\ UNCHANGED <<nscreens, active_window_id, z, scr, clients, impl_windows>>
    /\ UNCHANGED harness

\* lines 236-258: one screen root: QueryPointer, then the stacking list
Screen ==
    /\ pc = "screen"
    /\ scr <= nscreens
    /\ \E s \in Choices(ScreenReplies(scr, MaxWindows - Len(server.clients)),
                        first.server.screens[scr]) :
        /\ server' = [server EXCEPT !.screens = Append(@, s)]
        /\ IF s.qp.ok /\ s.qp.same_screen /\ s.lr.ok /\ s.lr.val # <<>>
           THEN /\ clients' = s.lr.val
                /\ pc' = "client"
                /\ scr' = scr
           ELSE /\ clients' = clients
                /\ pc' = pc
                /\ scr' = scr + 1
    /\ UNCHANGED <<nscreens, active_window_id, impl_monitors, z, impl_windows, result>>
    /\ UNCHANGED harness

\* what the window system answers about the next client
ClientReplies(P, W) ==
    IF run = 1
    THEN {[id |-> Head(clients), pid |-> p,
           reply |-> IF GetWindowPid(p).ok THEN w ELSE NoWindowReply] : p \in P, w \in W}
    ELSE LET e == first.server.clients[Len(server.clients) + 1]
         IN IF e.id = failW
            THEN {[id |-> e.id, pid |-> PidUnreadable, reply |-> NoWindowReply]}
            ELSE {e}

\* lines 260-283: one client of the stacking list
Client(P, W) ==
    /\ pc = "client"
    /\ clients # <<>>
    /\ \E c \in ClientReplies(P, W) :
        LET r == ProcessClient(z, impl_windows, Head(clients), c.pid, c.reply,
                               active_window_id, impl_monitors)
        IN /\ server' = [server EXCEPT !.clients = Append(@, c)]
           /\ z' = r.z
           /\ impl_windows' = r.impl_windows
    /\ clients' = Tail(clients)
    /\ IF Tail(clients) = <<>>
       THEN pc' = "screen" /\ scr' = scr + 1
       ELSE pc' = pc /\ scr' = scr
    /\ UNCHANGED <<nscreens, active_window_id, impl_monitors, result>>
    /\ UNCHANGED harness

\* lines 287-289: impl_windows.reverse(); Ok(impl_windows)
Finish ==
    /\ pc = "screen"
    /\ scr > nscreens
    /\ impl_windows' = Reverse(impl_windows)
    /\ result' = Ok(impl_windows')
    /\ pc' = "done"
    /\ UNCHANGED <<nscreens, active_window_id, impl_monitors, z, scr, clients, server>>
    /\ UNCHANGED harness

\* all() called again on the same window system state, except that the pid
\* of one listed window has become unreadable
Rerun ==
    /\ pc = "done"
    /\ run = 1
    /\ result.tag = "Ok"
    /\ \E i \in DOMAIN server.clients :
        /\ GetWindowPid(server.clients[i].pid).ok
        /\ failW' = server.clients[i].id
    /\ run' = 2
    /\ first' = [server |-> server, result |-> result]
    /\ pc' = "connect"
    /\ nscreens' = 0
    /\ active_window_id' = None
    /\ impl_monitors' = <<>>
    /\ z' = -1
    /\ scr' = 1
    /\ clients' = <<>>
    /\ impl_windows' = <<>>
    /\ result' = NoResult
    /\ server' = NoHistory
    /\ UNCHANGED <<arg, ret>>

\* a lone call of ImplWindow::new on the arguments drawn by InitNew
CallNew ==
    /\ pc = "new"
    /\ ~ret.called
    /\ ret' = [called |-> TRUE,
               res |-> New(arg.reply, WindowId(1, 1), 4242, 0, FALSE, arg.monitors)]
    /\ UNCHANGED <<pc, nscreens, active_window_id, impl_monitors, z, scr, clients,
                   impl_windows, result, server, run, first, failW, arg>>

\* one call of all()
Next ==
    \/ Connect
    \/ InternClientList
    \/ GetActive(EnumActive)
    \/ Monitors(EnumMonitors)
    \/ Screen
    \/ Client(EnumPids, EnumWindows)
    \/ Finish

Spec == Init /\ [][Next]_vars

\* one call of all(), the replies about the active window varied
NextFocus ==
    \/ Connect
    \/ InternClientList
    \/ GetActive(FocusActive)
    \/ Monitors(FocusMonitors)
    \/ Screen
    \/ Client(FocusPids, FocusWindows)
    \/ Finish

SpecFocus == Init /\ [][NextFocus]_vars

\* two calls of all()
NextRerun ==
    \/ Connect
    \/ InternClientList
    \/ GetActive(RerunActive)
    \/ Monitors(RerunMonitors)
    \/ Screen
    \/ Client(RerunPids, RerunWindows)
    \/ Finish
    \/ Rerun

SpecRerun == Init /\ [][NextRerun]_vars

\* ------------------------------------------------- lone calls of new()
\* i16 protocol coordinates, the extremes among them
CoordSamples == {-32768, -1, 0, 1, 32767}
CoordPairsY == {<<0, 0>>, <<30, 50>>, <<1, -32768>>}

SeqsUpTo(S, n) == UNION {[1..k -> S] : k \in 0..n}

MonitorLists == SeqsUpTo({M1, M2, M3}, MaxMonitors)
StateValues == SeqsUpTo({Hidden, MaxVert, MaxHorz, OtherStateAtom}, MaxStateLen)

TitleSamples ==
    {<<>>, <<72, 105>>, <<195, 169>>, <<240, 159, 152, 128>>,
     <<255>>, <<195>>, <<72, 128>>, <<192, 128>>, <<237, 160, 128>>,
     <<244, 144, 128, 128>>}
ClassSamples == {<<>>, <<0>>, <<70, 0, 102, 0>>, <<0, 0, 102>>, <<255>>}

\* the local and the translated position both vary
CoordInputs ==
    {[reply |-> [GoodReply EXCEPT !.geom.x = lx, !.trans.dst_x = dx,
                                  !.geom.y = py[1], !.trans.dst_y = py[2]],
      monitors |-> <<M1, M2>>] :
        lx \in CoordSamples, dx \in CoordSamples, py \in CoordPairsY}

\* the window rectangle and the monitor list vary
MonitorInputs ==
    {[reply |-> [GoodReply EXCEPT !.geom.x = 0, !.trans.dst_x = gx,
                                  !.geom.y = 0, !.trans.dst_y = 0,
                                  !.geom.width = w, !.geom.height = h],
      monitors |-> ms] :
        gx \in {-100, 0, 1000, 1800, 1920, 4000}, w \in {0, 100, 240}, h \in {0, 100},
        ms \in MonitorLists}

\* the _NET_WM_STATE value and the support of the state atoms vary
StateInputs ==
    {[reply |-> [GoodReply EXCEPT !.state = Prop(v)], monitors |-> <<M1>>] :
        v \in StateValues}
    \cup {[reply |-> [GoodReply EXCEPT !.atoms[n] = a], monitors |-> <<M1>>] :
        n \in Range(StateAtomNames), a \in {AtomErr, AtomMissing}}

\* the bytes of WM_NAME and WM_CLASS vary
TextInputs ==
    {[reply |-> [GoodReply EXCEPT !.title = Prop(t), !.class = Prop(c)],
      monitors |-> <<M1>>] : t \in TitleSamples, c \in ClassSamples}

\* one of the round trips fails
FailedInputs ==
    {[reply |-> r, monitors |-> <<M1>>] :
        r \in {[GoodReply EXCEPT !.title = PropErr], [GoodReply EXCEPT !.class = PropErr],
               [GoodReply EXCEPT !.geom.ok = FALSE], [GoodReply EXCEPT !.trans.ok = FALSE],
               [GoodReply EXCEPT !.state = PropErr]}}

NewInputs == CoordInputs \cup MonitorInputs \cup StateInputs \cup TextInputs \cup FailedInputs

InitNew ==
    /\ pc = "new"
    /\ nscreens = 0
    /\ active_window_id = None
    /\ impl_monitors = <<>>
    /\ z = -1
    /\ scr = 1
    /\ clients = <<>>
    /\ impl_windows = <<>>
    /\ result = NoResult
    /\ server = NoHistory
    /\ run = 1
    /\ first = [server |-> NoHistory, result |-> NoResult]
    /\ failW = 0
    /\ arg \in NewInputs
    /\ ret = NoRet

NextNew == CallNew

SpecNew == InitNew /\ [][NextNew]_vars

\* ============================================================ properties
Returned == pc = "done" /\ result.tag = "Ok"
Ids(ws) == {ws[i].id : i \in DOMAIN ws}
Listed == server.clients
PidReadable(c) == GetWindowPid(c.pid).ok
\* the place (from 1) of a handle in the stacking lists read, taken together
PositionOf(id) == CHOOSE i \in DOMAIN Listed : Listed[i].id = id
AtomUsable(r) == r.ok /\ r.atom # AtomNone
\* all replies new() needs are there and the texts decode
Resolvable(reply) ==
    /\ reply.title.ok /\ Utf8Valid(reply.title.val, 1)
    /\ reply.class.ok /\ Utf8Valid(reply.class.val, 1)
    /\ reply.geom.ok /\ reply.trans.ok
    /\ \A n \in Range(StateAtomNames) : AtomUsable(reply.atoms[n])
    /\ reply.state.ok
ScreenSkipped(s) == ~s.qp.ok \/ ~s.qp.same_screen \/ ~s.lr.ok

\* C1 (as stated): the z values of the returned windows are pairwise distinct
\* and form a contiguous range of integers
C1_ZContiguous ==
    Returned =>
        LET ws == result.val
            zs == {ws[i].z : i \in DOMAIN ws}
        IN /\ \A i, j \in DOMAIN ws : i # j => ws[i].z # ws[j].z
           /\ \A a, b \in zs : \A k \in a..b : k \in zs

\* C1 (amended): the z values of the returned windows are pairwise distinct and
\* each is the 0-based place of the window's handle in the stacking lists read,
\* skipped handles counted
C1_ZIsListPosition ==
    Returned =>
        LET ws == result.val
        IN /\ \A i, j \in DOMAIN ws : i # j => ws[i].z # ws[j].z
           /\ \A i \in DOMAIN ws : ws[i].z = PositionOf(ws[i].id) - 1

C1_Witness ==
    /\ Returned
    /\ nscreens = 2
    /\ \E i, j \in DOMAIN result.val :
        /\ result.val[i].z - result.val[j].z >= 2
        /\ result.val[i].id \div 10 # result.val[j].id \div 10
    /\ \E i \in DOMAIN Listed : ~PidReadable(Listed[i])

\* C2 (as stated): all() returns an error only when the connection cannot be
\* established and a list in every other situation
C2_ErrOnlyOnConnect ==
    pc = "done" => (IF server.conn[1].ok THEN result.tag = "Ok" ELSE result.tag = "Err")

\* C2 (amended): all() returns an error exactly when the connection cannot be
\* established, the stacking list atom cannot be resolved or the monitor
\* enumeration fails; a failed screen query or window never makes it an error
C2_ErrIffPreambleFails ==
    pc = "done" =>
        /\ result.tag \in {"Ok", "Err"}
        /\ result.tag = "Err" <=>
            \/ ~server.conn[1].ok
            \/ (server.atom # <<>> /\ ~AtomUsable(server.atom[1]))
            \/ (server.monitors # <<>> /\ ~server.monitors[1].ok)

C2_Witness ==
    /\ Returned
    /\ \E i \in DOMAIN server.screens : ScreenSkipped(server.screens[i])
    /\ \E i \in DOMAIN Listed : ~PidReadable(Listed[i])
    /\ \E i \in DOMAIN Listed : PidReadable(Listed[i]) /\ ~Resolvable(Listed[i].reply)
    /\ Len(result.val) < Len(Listed)
    /\ result.val # <<>>

\* C3: the second call, in which the pid of window failW is unreadable, returns
\* the result of the first call with failW removed: order, z and all fields of
\* the other windows are the same
C3_PidFailureFrame ==
    (run = 2 /\ pc = "done") =>
        result = Ok(SelectSeq(first.result.val, LAMBDA w : w.id # failW))

C3_Witness ==
    /\ run = 2
    /\ Returned
    /\ \E i, j, k \in DOMAIN first.result.val :
        /\ i < j /\ j < k
        /\ first.result.val[j].id = failW
    /\ Len(result.val) = 2

\* C4: the current_monitor is the monitor of lowest index among those whose
\* overlap area with the window is maximal; the first monitor when no monitor
\* overlaps the window
C4_MaxOverlapFirstWins ==
    (ret.called /\ ret.res.ok) =>
        LET w == ret.res.win[1]
            ms == arg.monitors
            area(i) == OverlapArea(Rect(w.x, w.y, w.width, w.height),
                                   Rect(ms[i].x, ms[i].y, ms[i].width, ms[i].height))
            best == CHOOSE i \in DOMAIN ms :
                        /\ \A j \in DOMAIN ms : area(j) <= area(i)
                        /\ \A j \in DOMAIN ms : j < i => area(j) < area(i)
        IN /\ w.current_monitor = ms[best]
           /\ (\A j \in DOMAIN ms : area(j) = 0) => w.current_monitor = ms[1]

C4_Witness ==
    /\ ret.called /\ ret.res.ok
    /\ Len(arg.monitors) = 2
    /\ arg.monitors[1] # arg.monitors[2]
    /\ LET w == ret.res.win[1]
           r == Rect(w.x, w.y, w.width, w.height)
       IN /\ OverlapArea(r, arg.monitors[1]) = OverlapArea(r, arg.monitors[2])
          /\ OverlapArea(r, arg.monitors[1]) > 0
          /\ w.current_monitor = arg.monitors[1]

\* C5: is_minimized holds exactly when the hidden atom is in the _NET_WM_STATE
\* value read, is_maximized exactly when both maximized atoms are in it and the
\* hidden atom is not; the two flags are never both true
C5_StateFlags ==
    (ret.called /\ ret.res.ok) =>
        LET w == ret.res.win[1]
            st == Range(arg.reply.state.val)
        IN /\ w.is_minimized <=> Hidden \in st
           /\ w.is_maximized <=> (MaxVert \in st /\ MaxHorz \in st /\ Hidden \notin st)
           /\ ~(w.is_minimized /\ w.is_maximized)

C5_Witness ==
    /\ ret.called /\ ret.res.ok
    /\ {Hidden, MaxVert, MaxHorz} \subseteq Range(arg.reply.state.val)
    /\ ret.res.win[1].is_minimized
    /\ ~ret.res.win[1].is_maximized

\* C6: a listed window whose WM_NAME bytes are not valid UTF-8 is not in the
\* result, all() succeeds all the same, and every other listed window that
\* resolves is in the result
C6_BadTitleSkipped ==
    pc = "done" =>
        \A i \in DOMAIN Listed :
            (/\ PidReadable(Listed[i])
             /\ Listed[i].reply.title.ok
             /\ ~Utf8Valid(Listed[i].reply.title.val, 1))
            => /\ result.tag = "Ok"
               /\ Listed[i].id \notin Ids(result.val)
               /\ \A j \in DOMAIN Listed :
                    (PidReadable(Listed[j]) /\ Resolvable(Listed[j].reply)
                     /\ impl_monitors # <<>>)
                    => \E k \in DOMAIN result.val :
                          /\ result.val[k].id = Listed[j].id
                          /\ result.val[k].title = Listed[j].reply.title.val

C6_Witness ==
    /\ Returned
    /\ \E i, j \in DOMAIN Listed :
        /\ i < j
        /\ PidReadable(Listed[i])
        /\ Listed[i].reply.title.ok
        /\ ~Utf8Valid(Listed[i].reply.title.val, 1)
        /\ Listed[j].id \in Ids(result.val)

\* C7: the returned sequence is frontmost first: z strictly decreases along it
C7_FrontmostFirst ==
    Returned =>
        \A i, j \in DOMAIN result.val : i < j => result.val[i].z > result.val[j].z

C7_Witness ==
    /\ Returned
    /\ Len(result.val) >= 2
    /\ result.val[1].id \div 10 = 2
    /\ result.val[Len(result.val)].id \div 10 = 1
    /\ Len(result.val) < Len(Listed)

\* some root reports the handle as the active window
ReportedOnSomeRoot(id) ==
    /\ AtomUsable(server.active[1].atom)
    /\ \E i \in DOMAIN server.active[1].roots :
        LET r == server.active[1].roots[i] IN r.ok /\ r.val # <<>> /\ Head(r.val) = id

\* the first root that reports a value reports the handle, and no read of an
\* earlier root failed
ReportedFirst(id) ==
    /\ AtomUsable(server.active[1].atom)
    /\ \E i \in DOMAIN server.active[1].roots :
        LET roots == server.active[1].roots
        IN /\ roots[i].ok /\ roots[i].val # <<>> /\ Head(roots[i].val) = id
           /\ \A j \in 1..(i - 1) : roots[j].ok /\ roots[j].val = <<>>

\* C8 (as stated): a returned window is focused iff its handle is the active
\* window reported on one of the screen roots
C8_FocusedIffReported ==
    Returned =>
        \A i \in DOMAIN result.val :
            result.val[i].is_focused <=> ReportedOnSomeRoot(result.val[i].id)

\* C8 (amended): a returned window is focused iff _NET_ACTIVE_WINDOW resolves
\* and its handle is the value of the first root, in setup order, that reports
\* one, no read of an earlier root having failed; otherwise no returned window
\* is focused, and the reads about the active window never make all() fail
C8_FocusedIffReportedFirst ==
    /\ Returned =>
        \A i \in DOMAIN result.val :
            result.val[i].is_focused <=> ReportedFirst(result.val[i].id)
    /\ (pc = "done" /\ server.active # <<>> /\ server.monitors[1].ok) => result.tag = "Ok"

C8_Witness ==
    /\ Returned
    /\ \E i, j \in DOMAIN result.val :
        /\ result.val[i].is_focused
        /\ ~result.val[j].is_focused
        /\ ReportedOnSomeRoot(result.val[j].id)

\* C9: x is the translated x minus the local x, and y likewise, as integers
C9_GlobalPosition ==
    (ret.called /\ ret.res.ok) =>
        /\ ret.res.win[1].x = arg.reply.trans.dst_x - arg.reply.geom.x
        /\ ret.res.win[1].y = arg.reply.trans.dst_y - arg.reply.geom.y

\* C10: with an empty monitor set new() fails for every listed window, after
\* its title, class and geometry reads, all() returns an empty list without
\* error, and no window is ever returned without a monitor of the set
C10_NoMonitors ==
    /\ Returned =>
        \A i \in DOMAIN result.val : result.val[i].current_monitor \in Range(impl_monitors)
    /\ (pc = "done" /\ server.monitors = <<Prop(<<>>)>>) =>
        /\ result = Ok(<<>>)
        /\ \A i \in DOMAIN Listed :
            (PidReadable(Listed[i]) /\ Resolvable(Listed[i].reply))
            => New(Listed[i].reply, Listed[i].id, 0, 0, FALSE, impl_monitors).stage
                 = "monitor"

C10_Witness ==
    /\ pc = "done"
    /\ server.monitors = <<Prop(<<>>)>>
    /\ result = Ok(<<>>)
    /\ Len(Listed) >= 2
    /\ \E i \in DOMAIN Listed : PidReadable(Listed[i]) /\ Resolvable(Listed[i].reply)

====
